---- MODULE Spec2Model ----
(***************************************************************************)
(* Pulse: the 11-byte pulse codec (Key, Minutes, Token) and the pulse      *)
(* generation algorithm (NewPulse) of LF.                                  *)
(*                                                                         *)
(* A uint64 is a sequence of four 16-bit limbs, most significant first, so *)
(* that every 64-bit value keeps its full width.  A byte slice is a        *)
(* sequence of numbers in 0..255.                                          *)
(***************************************************************************)
EXTENDS Integers, Sequences, FiniteSets, TLC

VARIABLES rec, last, prev, rx

vars == <<rec, last, prev, rx>>

-----------------------------------------------------------------------------
(* Constants of the program and bounds of the model *)

PulseSize == 11

\* The maximum number of minutes a pulse can span (scaled down: the chain
\* is evaluated step by step).
RecordMaxPulseSpan == 260

Nil == "nil"
\* A nil private key
NilKey == <<>>
ErrInvalidParameter == "invalid parameter"
ErrPrivateKeyRequired == "private key required"

LimbBase == 2^16
Zero64 == <<0, 0, 0, 0>>

-----------------------------------------------------------------------------
(* encoding/binary, big endian *)

\* A byte order bug: the eight bytes of v, least significant first
PutUint64_LittleEndian(v) ==
    << v[4] % 256, v[4] \div 256, v[3] % 256, v[3] \div 256,
       v[2] % 256, v[2] \div 256, v[1] % 256, v[1] \div 256 >>

\* binary.BigEndian.PutUint64: the eight bytes of v, most significant first
PutUint64(v) ==
    << v[1] \div 256, v[1] % 256, v[2] \div 256, v[2] % 256,
       v[3] \div 256, v[3] % 256, v[4] \div 256, v[4] % 256 >>

\* binary.BigEndian.Uint64: the value of the first eight bytes of b
Uint64(b) ==
    << b[1] * 256 + b[2], b[3] * 256 + b[4],
       b[5] * 256 + b[6], b[7] * 256 + b[8] >>

\* byte(x): the low eight bits of x
ByteOf(x) == x % 256

-----------------------------------------------------------------------------
(* The pulse hash chain *)

Th64Mul == 9541
Th64Add == <<40503, 31161, 49297, 5003>>

\* One step of the chain: a fixed pure transform of a 64-bit value,
\* x * Th64Mul + Th64Add modulo 2^64, computed limb by limb with carry.
th64(x) ==
    LET t4 == x[4] * Th64Mul + Th64Add[4]
        t3 == x[3] * Th64Mul + Th64Add[3] + (t4 \div LimbBase)
        t2 == x[2] * Th64Mul + Th64Add[2] + (t3 \div LimbBase)
        t1 == x[1] * Th64Mul + Th64Add[1] + (t2 \div LimbBase)
    IN  << t1 % LimbBase, t2 % LimbBase, t3 % LimbBase, t4 % LimbBase >>

\* Four and sixteen steps of the chain
th64x4(x) == th64(th64(th64(th64(x))))
th64x16(x) == th64x4(th64x4(th64x4(th64x4(x))))

RECURSIVE th64n_DoWhile(_, _)
\* A loop bug: the step is taken before the count is tested
th64n_DoWhile(x, n) ==
    IF Len(x) # 4 THEN x
    ELSE IF n >= 16 THEN th64n_DoWhile(th64x16(x), n - 16)
    ELSE IF n <= 1 THEN th64(x)
    ELSE th64n_DoWhile(th64(x), n - 1)

RECURSIVE th64n(_, _)
\* th64 applied n times: the loop over the steps, unrolled sixteen at a
\* time; the length test has x evaluated before the next step is taken.
th64n(x, n) ==
    IF n = 0 \/ Len(x) # 4 THEN x
    ELSE IF n >= 16 THEN th64n(th64x16(x), n - 16)
    ELSE th64n(th64(x), n - 1)

-----------------------------------------------------------------------------
(* Pulse accessors *)

\* A length check bug: only short slices are rejected
Key_ShortOnly(p) ==
    IF Len(p) < PulseSize THEN Zero64
    ELSE Uint64(SubSeq(p, 1, 8))

Key(p) ==
    IF Len(p) # PulseSize THEN Zero64
    ELSE Uint64(SubSeq(p, 1, 8))

\* A missing clamp: the raw 24-bit number is returned
Minutes_NoClamp(p) ==
    IF Len(p) # PulseSize THEN 0
    ELSE p[9] * 65536 + p[10] * 256 + p[11]

\* A byte order bug: the three bytes are read least significant first
Minutes_LittleEndian(p) ==
    IF Len(p) # PulseSize THEN 0
    ELSE LET minutes == p[11] * 65536 + p[10] * 256 + p[9]
         IN  IF minutes > RecordMaxPulseSpan THEN RecordMaxPulseSpan
             ELSE minutes

Minutes(p) ==
    IF Len(p) # PulseSize THEN 0
    ELSE LET minutes == p[9] * 65536 + p[10] * 256 + p[11]
         IN  IF minutes > RecordMaxPulseSpan THEN RecordMaxPulseSpan
             ELSE minutes

Token(p) == th64n(Key(p), Minutes(p))

-----------------------------------------------------------------------------
(* Pulse generation *)

SumIV == <<106, 9, 230, 103, 187, 103, 174, 133>>

SumAbsorb(h, b) == [k \in 1..8 |-> (h[(k % 8) + 1] * 33 + b + k) % 256]

RECURSIVE SumFold(_, _, _)
SumFold(h, data, i) ==
    IF i > Len(data) THEN h ELSE SumFold(SumAbsorb(h, data[i]), data, i + 1)

\* The first eight bytes of the digest of everything written to the hasher
Sum(data) == SumFold(SumIV, data, 1)

\* owner.PrivateHash(): a digest of the owner's private key
PrivateHash(owner) == Sum(owner.Private)

RECURSIVE SelectorBytes(_, _, _)
\* What the loop over the selectors writes to the hasher, from index i on
SelectorBytes(selectorNames, selectorOrdinals, i) ==
    IF i > Len(selectorNames) THEN <<>>
    ELSE selectorNames[i]
         \o (IF i <= Len(selectorOrdinals)
             THEN PutUint64(selectorOrdinals[i]) ELSE <<>>)
         \o SelectorBytes(selectorNames, selectorOrdinals, i + 1)

\* The 64-bit seed of the chain of a record
PulseSeed(owner, selectorNames, selectorOrdinals, recordTimestamp) ==
    Uint64(Sum(SelectorBytes(selectorNames, selectorOrdinals, 1)
               \o PutUint64(recordTimestamp)
               \o PrivateHash(owner)))

\* The pulse buffer: the chain value in bytes 0..7, big endian, and the
\* minutes in bytes 8..10, big endian
EncodePulse(chainValue, minutes) ==
    PutUint64(chainValue)
    \o << ByteOf(minutes \div 65536), ByteOf(minutes \div 256), ByteOf(minutes) >>

\* Bugs of NewPulse: one step too many
NewPulse_OffByOne(owner, selectorNames, selectorOrdinals, recordTimestamp, minutes) ==
    IF owner.Private = NilKey
    THEN [p |-> <<>>, err |-> ErrPrivateKeyRequired]
    ELSE IF minutes > RecordMaxPulseSpan
    THEN [p |-> <<>>, err |-> ErrInvalidParameter]
    ELSE [p |-> EncodePulse(
                    th64n(PulseSeed(owner, selectorNames, selectorOrdinals,
                                    recordTimestamp),
                          RecordMaxPulseSpan - minutes + 1),
                    minutes),
          err |-> Nil]

\* the minutes are checked before the private key
NewPulse_ParamFirst(owner, selectorNames, selectorOrdinals, recordTimestamp, minutes) ==
    IF minutes > RecordMaxPulseSpan
    THEN [p |-> <<>>, err |-> ErrInvalidParameter]
    ELSE IF owner.Private = NilKey
    THEN [p |-> <<>>, err |-> ErrPrivateKeyRequired]
    ELSE [p |-> EncodePulse(
                    th64n(PulseSeed(owner, selectorNames, selectorOrdinals,
                                    recordTimestamp),
                          RecordMaxPulseSpan - minutes),
                    minutes),
          err |-> Nil]

\* the buffer is returned with the error
NewPulse_PartialOnError(owner, selectorNames, selectorOrdinals, recordTimestamp, minutes) ==
    IF owner.Private = NilKey
    THEN [p |-> <<>>, err |-> ErrPrivateKeyRequired]
    ELSE IF minutes > RecordMaxPulseSpan
    THEN [p |-> [i \in 1..PulseSize |-> 0], err |-> ErrInvalidParameter]
    ELSE [p |-> EncodePulse(
                    th64n(PulseSeed(owner, selectorNames, selectorOrdinals,
                                    recordTimestamp),
                          RecordMaxPulseSpan - minutes),
                    minutes),
          err |-> Nil]

\* the chain is run to its end whatever the minutes
NewPulse_FullChain(owner, selectorNames, selectorOrdinals, recordTimestamp, minutes) ==
    IF owner.Private = NilKey
    THEN [p |-> <<>>, err |-> ErrPrivateKeyRequired]
    ELSE IF minutes > RecordMaxPulseSpan
    THEN [p |-> <<>>, err |-> ErrInvalidParameter]
    ELSE [p |-> EncodePulse(
                    th64n(PulseSeed(owner, selectorNames, selectorOrdinals,
                                    recordTimestamp),
                          RecordMaxPulseSpan),
                    minutes),
          err |-> Nil]

\* the chain is run minutes steps instead of the remaining ones
NewPulse_Reversed(owner, selectorNames, selectorOrdinals, recordTimestamp, minutes) ==
    IF owner.Private = NilKey
    THEN [p |-> <<>>, err |-> ErrPrivateKeyRequired]
    ELSE IF minutes > RecordMaxPulseSpan
    THEN [p |-> <<>>, err |-> ErrInvalidParameter]
    ELSE [p |-> EncodePulse(
                    th64n(PulseSeed(owner, selectorNames, selectorOrdinals,
                                    recordTimestamp),
                          minutes),
                    minutes),
          err |-> Nil]

NewPulse(owner, selectorNames, selectorOrdinals, recordTimestamp, minutes) ==
    IF owner.Private = NilKey
    THEN [p |-> <<>>, err |-> ErrPrivateKeyRequired]
    ELSE IF minutes > RecordMaxPulseSpan
    THEN [p |-> <<>>, err |-> ErrInvalidParameter]
    ELSE [p |-> EncodePulse(
                    th64n(PulseSeed(owner, selectorNames, selectorOrdinals,
                                    recordTimestamp),
                          RecordMaxPulseSpan - minutes),
                    minutes),
          err |-> Nil]

-----------------------------------------------------------------------------
(* Inputs *)

Owners ==
    { [Private |-> NilKey], [Private |-> <<1, 2>>], [Private |-> <<3>>] }

SelectorNameInputs == { <<>>, << <<97>>, <<98, 99>> >> }

SelectorOrdinalInputs == { <<>>, << <<0, 0, 1, 7>> >> }

TimestampInputs == { <<0, 0, 23855, 4096>> }

Identities ==
    [owner : Owners, names : SelectorNameInputs,
     ords : SelectorOrdinalInputs, ts : TimestampInputs]

MinutesInputs ==
    { 0, 1, 10, 20, 255, 256,
      RecordMaxPulseSpan - 1, RecordMaxPulseSpan, RecordMaxPulseSpan + 1,
      2^24 }

WireKeys ==
    { <<0, 0, 0, 0, 0, 0, 0, 0>>, <<1, 2, 3, 4, 5, 6, 7, 8>>,
      <<255, 255, 255, 255, 255, 255, 255, 255>> }

WireMinuteBytes ==
    { <<b8, b9, b10>> :
        b8 \in {0, 1, 255},
        b9 \in {0, (RecordMaxPulseSpan \div 256) % 256, 255},
        b10 \in {0, RecordMaxPulseSpan % 256,
                 (RecordMaxPulseSpan + 1) % 256, 255} }

WellSized == { k \o m : k \in WireKeys, m \in WireMinuteBytes }

\* Byte sequences a peer can send: pulses, truncated and overlong ones
WirePulses ==
    WellSized
    \cup { SubSeq(w, 1, n) : w \in WellSized, n \in {0, 1, 8, 10} }
    \cup { w \o <<b>> : w \in WellSized, b \in {0, 255} }

-----------------------------------------------------------------------------
(* The state machine: an owner generates pulses for a record, a node        *)
(* decodes the pulses it receives.                                          *)

NoCall == [called |-> FALSE, minutes |-> 0, p |-> <<>>, err |-> Nil]

NoPulse == [p |-> <<>>, key |-> Zero64, minutes |-> 0]

Init ==
    /\ rec \in Identities
    /\ last = NoCall
    /\ prev = NoCall
    /\ rx = NoPulse

\* The owner turns to another record
NewRecord(id) ==
    /\ id # rec
    /\ rec' = id
    /\ last' = NoCall
    /\ prev' = NoCall
    /\ UNCHANGED rx

\* The owner calls NewPulse for the record
Generate(minutes) ==
    /\ LET r == NewPulse(rec.owner, rec.names, rec.ords, rec.ts, minutes)
       IN  last' = [called |-> TRUE, minutes |-> minutes,
                    p |-> r.p, err |-> r.err]
    /\ prev' = last
    /\ UNCHANGED <<rec, rx>>

\* A node receives a byte sequence and reads it as a pulse
Receive(b) ==
    /\ rx' = [p |-> b, key |-> Key(b), minutes |-> Minutes(b)]
    /\ UNCHANGED <<rec, last, prev>>

Next ==
    \/ \E id \in Identities : NewRecord(id)
    \/ \E minutes \in MinutesInputs : Generate(minutes)

Spec == Init /\ [][Next]_vars

CodecInit ==
    /\ rec = [owner |-> [Private |-> NilKey], names |-> <<>>,
              ords |-> <<>>, ts |-> <<0, 0, 23855, 4096>>]
    /\ last = NoCall
    /\ prev = NoCall
    /\ rx = NoPulse

CodecNext == \E b \in WirePulses : Receive(b)

CodecSpec == CodecInit /\ [][CodecNext]_vars

\* The seed of the chain of the current record
Seed == PulseSeed(rec.owner, rec.names, rec.ords, rec.ts)

HasKey == rec.owner.Private # NilKey

Valid(c) == c.called /\ c.err = Nil

-----------------------------------------------------------------------------
(* Properties *)

\* The 24-bit big-endian number in bytes 8..10 of an 11-byte slice
Raw24(p) == p[9] * 65536 + p[10] * 256 + p[11]

Min(a, b) == IF a <= b THEN a ELSE b

\* C1: for an owner with a private key and minutes <= RecordMaxPulseSpan,
\* the token of the pulse NewPulse returns is the seed advanced
\* RecordMaxPulseSpan steps, whatever the minutes: two pulses of one record
\* have the same token.
TokenIsChainEnd ==
    /\ (last.called /\ HasKey /\ last.minutes <= RecordMaxPulseSpan) =>
          /\ last.err = Nil
          /\ Token(last.p) = th64n(Seed, RecordMaxPulseSpan)
    /\ (Valid(prev) /\ Valid(last)) => Token(prev.p) = Token(last.p)

TokenIsChainEndWitness ==
    /\ Valid(prev) /\ prev.minutes = 10
    /\ Valid(last) /\ last.minutes = 256
    /\ Token(last.p) = th64n(Seed, RecordMaxPulseSpan)

\* C2: the chain is additive in its step count, chain(chain(S, m1), m2) =
\* chain(S, m1 + m2) for m1, m2 <= RecordMaxPulseSpan, and zero steps leave
\* the value as it is.
ChainComposes ==
    /\ th64n(Seed, 0) = Seed
    /\ (prev.called /\ last.called
        /\ prev.minutes <= RecordMaxPulseSpan
        /\ last.minutes <= RecordMaxPulseSpan) =>
          th64n(th64n(Seed, prev.minutes), last.minutes)
            = th64n(Seed, prev.minutes + last.minutes)

ChainComposesWitness ==
    /\ prev.called /\ prev.minutes = RecordMaxPulseSpan
    /\ last.called /\ last.minutes = RecordMaxPulseSpan - 1
    /\ th64n(th64n(Seed, prev.minutes), last.minutes)
         = th64n(Seed, 2 * RecordMaxPulseSpan - 1)
    /\ th64n(Seed, 1) # Seed

\* C3: the pulse NewPulse builds has exactly 11 bytes, Key() returns the
\* chain value written to it and Minutes() the minutes written to it, up to
\* and including RecordMaxPulseSpan.
EncodingRoundTrips ==
    Valid(last) =>
        /\ Len(last.p) = PulseSize
        /\ Key(last.p) = th64n(Seed, RecordMaxPulseSpan - last.minutes)
        /\ Minutes(last.p) = last.minutes

EncodingRoundTripsWitness ==
    /\ Valid(last)
    /\ last.minutes = RecordMaxPulseSpan
    /\ Minutes(last.p) = RecordMaxPulseSpan
    /\ Key(last.p) = Seed
    /\ Key(last.p) # Zero64

\* C4: for an 11-byte pulse Minutes() is the smaller of the 24-bit number
\* in bytes 8..10 and RecordMaxPulseSpan, so never above
\* RecordMaxPulseSpan.
MinutesClamped ==
    Len(rx.p) = PulseSize =>
        /\ rx.minutes = Min(Raw24(rx.p), RecordMaxPulseSpan)
        /\ rx.minutes <= RecordMaxPulseSpan

MinutesClampedWitness ==
    /\ Len(rx.p) = PulseSize
    /\ Raw24(rx.p) > RecordMaxPulseSpan
    /\ rx.minutes = RecordMaxPulseSpan

\* C5: for a byte sequence whose length is not 11, whatever its contents,
\* Key() is 0 and Minutes() is 0.
WrongLengthReadsZero ==
    Len(rx.p) # PulseSize => (rx.key = Zero64 /\ rx.minutes = 0)

WrongLengthReadsZeroWitness ==
    /\ Len(rx.p) = PulseSize + 1
    /\ rx.p[1] = 255 /\ rx.p[11] = 255
    /\ rx.key = Zero64 /\ rx.minutes = 0

\* C6: for an owner without a private key NewPulse returns the error
\* "private key required" and an empty pulse, whatever the minutes.
NoKeyNoPulse ==
    (last.called /\ ~HasKey) =>
        (last.err = ErrPrivateKeyRequired /\ last.p = <<>>)

NoKeyNoPulseWitness ==
    /\ last.called /\ ~HasKey
    /\ last.minutes > RecordMaxPulseSpan
    /\ last.err = ErrPrivateKeyRequired

\* C7: for an owner with a private key and minutes above
\* RecordMaxPulseSpan NewPulse returns the error "invalid parameter" and
\* an empty pulse; a pulse that is not empty comes with no error.
BadMinutesNoPulse ==
    /\ (last.called /\ HasKey /\ last.minutes > RecordMaxPulseSpan) =>
          (last.err = ErrInvalidParameter /\ last.p = <<>>)
    /\ (last.called /\ last.p # <<>>) => last.err = Nil

BadMinutesNoPulseWitness ==
    /\ last.called /\ HasKey
    /\ last.minutes = RecordMaxPulseSpan + 1
    /\ last.err = ErrInvalidParameter

\* A call with 10 minutes and a call with 20 minutes for the same record
TenAndTwenty(a, b) ==
    /\ a.called /\ b.called /\ HasKey
    /\ a.minutes = 10 /\ b.minutes = 20

\* C8: two pulses of one record, one for 10 minutes and one for 20, have
\* different keys and the same token.
TenTwentySameToken ==
    /\ TenAndTwenty(prev, last) =>
          (Key(prev.p) # Key(last.p) /\ Token(prev.p) = Token(last.p))
    /\ TenAndTwenty(last, prev) =>
          (Key(prev.p) # Key(last.p) /\ Token(prev.p) = Token(last.p))

TenTwentySameTokenWitness ==
    /\ TenAndTwenty(prev, last)
    /\ Valid(prev) /\ Valid(last)
    /\ Token(prev.p) = Token(last.p)

\* C9: the pulse for 0 minutes carries the pulse token: its key is the
\* seed advanced RecordMaxPulseSpan steps, and is its own token.
ZeroMinutesIsToken ==
    (last.called /\ HasKey /\ last.minutes = 0) =>
        /\ last.err = Nil
        /\ Key(last.p) = th64n(Seed, RecordMaxPulseSpan)
        /\ Key(last.p) = Token(last.p)

ZeroMinutesIsTokenWitness ==
    /\ Valid(last) /\ last.minutes = 0
    /\ Key(last.p) = th64n(Seed, RecordMaxPulseSpan)
    /\ Key(last.p) # Seed

\* C10: the key of a pulse for fewer minutes is the key of a pulse of the
\* same record for more minutes, advanced by the difference; the pulse for
\* RecordMaxPulseSpan minutes has the seed as its key.
DerivableDownward ==
    /\ (Valid(prev) /\ Valid(last) /\ last.minutes <= prev.minutes) =>
          Key(last.p) = th64n(Key(prev.p), prev.minutes - last.minutes)
    /\ (Valid(last) /\ last.minutes = RecordMaxPulseSpan) =>
          Key(last.p) = Seed

DerivableDownwardWitness ==
    /\ Valid(prev) /\ prev.minutes = RecordMaxPulseSpan
    /\ Valid(last) /\ last.minutes = 20
    /\ Key(prev.p) = Seed
    /\ Key(last.p) = th64n(Key(prev.p), RecordMaxPulseSpan - 20)

====
